---------------------------- MODULE Spec2Model ----------------------------
(***************************************************************************)
(* A model of src/booking.py: LightningFastBooking.run and the methods it  *)
(* drives (_login_and_prepare, wait_until_target_time, _execute_booking,   *)
(* wait_and_click, check_result, go_to_payment).                           *)
(*                                                                         *)
(* The browser page, the clock and random.shuffle are the environment:     *)
(* every Playwright call that can raise (timeout, element absent) is a     *)
(* nondeterministic choice between completing and raising.  logging,       *)
(* time.sleep, time.time, print, input and browser.close are taken to      *)
(* complete normally.                                                      *)
(***************************************************************************)
EXTENDS Integers, Sequences, FiniteSets

(* ------------------------------ bounds --------------------------------- *)

\* Number of courts in self.courts (the source lists three; the shuffled
\* list has NumCourts * Len(time_slots) entries).
NumCourts == 2

\* Length of a day in clock ticks.
DayLen == 4

\* Largest advance of the clock between two reads, in ticks.
ClockStep == 2

(* --------------------------- configuration ----------------------------- *)

\* self.courts: the courts are named by their number.
courts == [i \in 1..NumCourts |-> i]

\* self.time_slots: the first two of the three slots of the source.
time_slots == <<"18:00-19:00", "19:00-20:00">>

\* self.target_time as a time of day, in ticks after midnight.
target_time == 1

(* ------------------------ selector lists ------------------------------- *)

\* Number of selectors each wait_and_click call site passes.
login_selectors == 1
submit_login_selectors == 1
venue_selectors == 1
booking_selectors == 3
date_selectors == 3
court_selectors == 2
submit_selectors == 1
payment_selectors == 1

VARIABLES
    pc,                \* position in run()
    is_ci,             \* self.is_ci
    now,               \* wait_until_target_time: local now (-1: not set)
    target,            \* wait_until_target_time: local target (-1: not set)
    reading,           \* wait_until_target_time: the latest datetime.now()
    trace,             \* log: the phases of run(), in the order they began
    all_combinations,  \* _execute_booking: the shuffled list
    idx,               \* _execute_booking: position of the for loop
    started,           \* log: combinations whose loop body was entered
    steps,             \* log: <<step, ok>> of the current combination
    wc,                \* log: the latest wait_and_click call
    verdicts,          \* log: the outcomes of the check_result calls
    probe,             \* log: what the page shows a running check_result
    submit_tried,      \* log: the submit-order click was attempted
    success,           \* _execute_booking: local success
    exc,               \* the exception that reached run(), "none" if none
    screenshot,        \* log: "saved" or "failed" once page.screenshot ran
    exec_end,          \* how _execute_booking ended
    ret,               \* the value run() is about to return
    result,            \* what run() gave its caller
    calls              \* log: number of calls, by name

vars == <<pc, is_ci, now, target, reading, trace, all_combinations, idx,
          started, steps, wc, verdicts, probe, submit_tried, success, exc,
          screenshot, exec_end, ret, result, calls>>

(* --------------------------- pure helpers ------------------------------ *)

BoolSeqs(n) == [1..n -> BOOLEAN]

RECURSIVE wait_and_click_from(_, _, _)
\* The for loop of wait_and_click from selector i on: outs[i] tells whether
\* the try block of selector i completes (TRUE) or raises (FALSE).
wait_and_click_from(outs, i, tried) ==
    IF i > Len(outs)
    THEN [ret |-> FALSE, tried |-> tried, clicked |-> 0]
    ELSE IF outs[i]
         THEN [ret |-> TRUE, tried |-> Append(tried, i), clicked |-> i]
         ELSE wait_and_click_from(outs, i + 1, Append(tried, i))

\* wait_and_click without 'return True': every selector is tried and the
\* last one that completed counts.
wait_and_click_last(outs) ==
    LET hits == {i \in 1..Len(outs) : outs[i]}
    IN [ret |-> hits # {},
        tried |-> [i \in 1..Len(outs) |-> i],
        clicked |-> IF hits = {} THEN 0
                    ELSE CHOOSE i \in hits : \A j \in hits : j <= i]

\* wait_and_click with 'break' for 'continue': the first selector that
\* raises ends the loop.
wait_and_click_break(outs) ==
    IF Len(outs) = 0
    THEN [ret |-> FALSE, tried |-> <<>>, clicked |-> 0]
    ELSE [ret |-> outs[1], tried |-> <<1>>,
          clicked |-> IF outs[1] THEN 1 ELSE 0]

wait_and_click(outs) == wait_and_click_from(outs, 1, <<>>)

\* check_result with the two probes in the other order.
check_result_failure_first(sv, st, fv, ft) ==
    IF fv /\ ft
    THEN [ret |-> FALSE, outcome |-> "Failure", probes |-> <<"failure">>]
    ELSE IF sv /\ st
         THEN [ret |-> TRUE, outcome |-> "Success",
               probes |-> <<"failure", "success">>]
         ELSE [ret |-> FALSE, outcome |-> "Unknown",
               probes |-> <<"failure", "success">>]

\* check_result: sv/fv tell whether the success/failure pattern becomes
\* visible within its timeout, st/ft whether reading its text completes.
check_result(sv, st, fv, ft) ==
    IF sv /\ st
    THEN [ret |-> TRUE, outcome |-> "Success", probes |-> <<"success">>]
    ELSE IF fv /\ ft
         THEN [ret |-> FALSE, outcome |-> "Failure",
               probes |-> <<"success", "failure">>]
         ELSE [ret |-> FALSE, outcome |-> "Unknown",
               probes |-> <<"success", "failure">>]

\* [(court, slot) for court in self.courts for slot in self.time_slots]
product(cs, ss) ==
    [k \in 1..(Len(cs) * Len(ss)) |->
        <<cs[((k - 1) \div Len(ss)) + 1], ss[((k - 1) % Len(ss)) + 1]>>]

\* A draw with replacement in place of the shuffle.
shuffle_replacement(seq) ==
    LET n == Len(seq)
    IN {[i \in 1..n |-> seq[p[i]]] : p \in [1..n -> 1..n]}

\* random.shuffle: any rearrangement of the list.
shuffle(seq) ==
    LET n == Len(seq)
        perms == {p \in [1..n -> 1..n] : \A i, j \in 1..n : p[i] = p[j] => i = j}
    IN {[i \in 1..n |-> seq[p[i]]] : p \in perms}

\* now.replace(hour, minute, second, microsecond) with self.target_time.
replace_time(t) == (t \div DayLen) * DayLen + target_time

\* The target without the step to the next day.
compute_target_same_day(t) == replace_time(t)

\* The target with 'now > target' for 'now >= target'.
compute_target_strict(t) ==
    IF t > replace_time(t) THEN replace_time(t) + DayLen ELSE replace_time(t)

\* The target of wait_until_target_time for a clock reading t.
compute_target(t) ==
    IF t >= replace_time(t) THEN replace_time(t) + DayLen ELSE replace_time(t)

\* What a locator can show: its text is read only of a visible element.
Readable(visible, text) == text => visible

NoProbe == [sv |-> FALSE, st |-> FALSE, fv |-> FALSE, ft |-> FALSE,
            probes |-> <<>>]

NoCall == [site |-> "none", outs |-> <<>>, ret |-> FALSE, tried |-> <<>>,
           clicked |-> 0]

Call(site, outs) ==
    LET r == wait_and_click(outs)
    IN [site |-> site, outs |-> outs, ret |-> r.ret, tried |-> r.tried,
        clicked |-> r.clicked]

CallNames == {"date", "submit_ok", "classify", "payment", "screenshot",
              "prompt", "close"}

Count(name) == [calls EXCEPT ![name] = @ + 1]

(* ------------------------------- Init ---------------------------------- *)

Init ==
    /\ pc = "launch"
    /\ is_ci \in BOOLEAN
    /\ now = -1
    /\ target = -1
    /\ reading = -1
    /\ trace = <<>>
    /\ all_combinations = <<>>
    /\ idx = 0
    /\ started = <<>>
    /\ steps = <<>>
    /\ wc = NoCall
    /\ verdicts = <<>>
    /\ probe = NoProbe
    /\ submit_tried = FALSE
    /\ success = FALSE
    /\ exc = "none"
    /\ screenshot = "none"
    /\ exec_end = "none"
    /\ ret = "none"
    /\ result = "none"
    /\ calls = [n \in CallNames |-> 0]


(* ------------------------ run(): preparation --------------------------- *)

\* Variables of _execute_booking and of the logs it writes.
search_vars == <<all_combinations, idx, started, steps, verdicts, probe,
                 submit_tried, success, exec_end>>

wait_vars == <<now, target, reading, screenshot, trace>>

\* An exception leaves the try block of run() for its except clause.
Raise(e) ==
    /\ pc' = "except"
    /\ exc' = e

\* sync_playwright / chromium.launch / new_context / new_page, before the
\* try block: an exception here leaves run().
launch ==
    /\ pc = "launch"
    /\ \E ok \in BOOLEAN :
          IF ok
          THEN /\ pc' = "goto"
               /\ UNCHANGED result
          ELSE /\ pc' = "done"
               /\ result' = "raised"
    /\ UNCHANGED <<is_ci, wait_vars, search_vars, wc, exc, ret, calls>>

\* page.goto of _login_and_prepare.
goto ==
    /\ pc = "goto"
    /\ \E ok \in BOOLEAN :
          IF ok
          THEN /\ pc' = "login_click"
               /\ UNCHANGED exc
          ELSE Raise("goto")
    /\ UNCHANGED <<is_ci, wait_vars, search_vars, wc, ret, result, calls>>

\* A call site of the form
\*   if not self.wait_and_click(page, selectors): raise Exception(...)
ClickOrRaise(at, n, next, e) ==
    /\ pc = at
    /\ \E outs \in BoolSeqs(n) :
          /\ wc' = Call(at, outs)
          /\ IF wc'.ret
             THEN /\ pc' = next
                  /\ UNCHANGED exc
             ELSE Raise(e)

\* _login_and_prepare with the result of its last click ignored.
after_booking_ignored(ok) == "wait"

\* Where run() goes after the last click of _login_and_prepare: on to
\* wait_until_target_time, or out with an exception.
after_booking(ok) == IF ok THEN "wait" ELSE "raise"

\* do_login: click the login entry.
login_click ==
    /\ ClickOrRaise("login_click", login_selectors, "login_fill", "login")
    /\ UNCHANGED <<is_ci, wait_vars, search_vars, ret, result, calls>>

\* do_login: fill in the user name and the password (both are set, or
\* __init__ has raised).
login_fill ==
    /\ pc = "login_fill"
    /\ \E ok \in BOOLEAN :
          IF ok
          THEN /\ pc' = "login_submit"
               /\ UNCHANGED exc
          ELSE Raise("fill")
    /\ UNCHANGED <<is_ci, wait_vars, search_vars, wc, ret, result, calls>>

\* do_login: click the login button.
login_submit ==
    /\ ClickOrRaise("login_submit", submit_login_selectors, "login_idle",
                    "login")
    /\ UNCHANGED <<is_ci, wait_vars, search_vars, ret, result, calls>>

\* do_login: page.wait_for_load_state.
login_idle ==
    /\ pc = "login_idle"
    /\ \E ok \in BOOLEAN :
          IF ok
          THEN /\ pc' = "venue"
               /\ UNCHANGED exc
          ELSE Raise("load_state")
    /\ UNCHANGED <<is_ci, wait_vars, search_vars, wc, ret, result, calls>>

\* _login_and_prepare: choose the venue.
select_venue ==
    /\ ClickOrRaise("venue", venue_selectors, "booking_btn", "venue")
    /\ UNCHANGED <<is_ci, wait_vars, search_vars, ret, result, calls>>

\* _login_and_prepare: click the booking button.
click_booking ==
    /\ pc = "booking_btn"
    /\ \E outs \in BoolSeqs(booking_selectors) :
          /\ wc' = Call("booking_btn", outs)
          /\ IF after_booking(wc'.ret) = "raise"
             THEN /\ Raise("booking_btn")
                  /\ UNCHANGED trace
             ELSE /\ pc' = after_booking(wc'.ret)
                  /\ trace' = Append(trace, "prepared")
                  /\ UNCHANGED exc
    /\ UNCHANGED <<is_ci, now, target, reading, screenshot, search_vars, ret,
                   result, calls>>

(* ------------------ run(): wait_until_target_time ---------------------- *)

\* wait_until_target_time without its CI shortcut.
bypass_never(ci) == FALSE

\* 'if self.is_ci: return'.
bypass(ci) == ci

\* 'while datetime.now() < target'.
keep_waiting(t, tg) == t < tg

\* Entry of wait_until_target_time: return at once in CI, otherwise read
\* the clock and compute the target.
wait_enter ==
    /\ pc = "wait"
    /\ IF bypass(is_ci)
       THEN /\ pc' = "date"
            /\ trace' = trace \o <<"wait", "waited">>
            /\ UNCHANGED <<now, target, reading>>
       ELSE \E t \in 0..(DayLen - 1) :
               /\ now' = t
               /\ reading' = t
               /\ target' = compute_target(t)
               /\ trace' = Append(trace, "wait")
               /\ pc' = "spin"
    /\ UNCHANGED <<is_ci, screenshot, search_vars, wc, exc, ret, result,
                   calls>>

\* One test of 'while datetime.now() < target': the clock is read, it never
\* runs backwards, and the loop sleeps and tests again or ends.
wait_spin ==
    /\ pc = "spin"
    /\ \E t \in reading..(reading + ClockStep) :
          /\ reading' = t
          /\ pc' = IF keep_waiting(t, target) THEN "spin" ELSE "wait_done"
    /\ UNCHANGED <<is_ci, now, target, screenshot, trace, search_vars, wc,
                   exc, ret, result, calls>>

\* The return of wait_until_target_time after its loop: the locals end
\* with the call.
wait_return ==
    /\ pc = "wait_done"
    /\ pc' = "date"
    /\ now' = -1
    /\ target' = -1
    /\ reading' = -1
    /\ trace' = Append(trace, "waited")
    /\ UNCHANGED <<is_ci, screenshot, search_vars, wc, exc, ret, result,
                   calls>>

(* -------------------- run(): _execute_booking -------------------------- *)

prep_vars == <<is_ci, now, target, reading, screenshot, trace>>

\* The date selection with its result ignored.
after_date_ignored(ok) == "shuffle"

\* Where _execute_booking goes after the date selection.
after_date(ok) == IF ok THEN "shuffle" ELSE "raise"

\* A loop body whose except clause raises again.
attempt_error_escapes(step) ==
    IF step \in {"slot", "confirm", "marker"} THEN "raise" ELSE "loop"

\* How a failed step ends the attempt: 'continue' after a wait_and_click
\* that returned False, and the 'except Exception ... continue' of the
\* loop body for a page action that raised.
attempt_error(step) == "loop"

\* The loop body without the wait for the submit button: a marker that
\* never shows is not noticed.
next_step_unverified(step, ok) ==
    IF step = "marker" THEN "submit"
    ELSE IF ~ok THEN "loop"
    ELSE CASE step = "court" -> "slot"
           [] step = "slot" -> "confirm"
           [] step = "confirm" -> "marker"
           [] step = "submit" -> "check"

\* Where the loop body goes after a step of a combination: a step that
\* fails ends the attempt ('continue', directly or through the except
\* clause of the loop body) and the for loop takes the next combination.
next_step(step, ok) ==
    IF ~ok THEN attempt_error(step)
    ELSE CASE step = "court" -> "slot"
           [] step = "slot" -> "confirm"
           [] step = "confirm" -> "marker"
           [] step = "marker" -> "submit"
           [] step = "submit" -> "check"

\* The loop body with the return under 'if success:' only: a check_result
\* that returned False lets the for loop take the next combination.
after_check_retry(s) == IF s THEN "payment" ELSE "loop"

\* The loop body with 'continue' after a success in place of the return.
after_check_continue(s) == IF s THEN "loop" ELSE "return"

\* 'if success: self.go_to_payment(page)' and then 'return success'.
after_check(s) == IF s THEN "payment" ELSE "return"

\* 'return True'.
exec_value_always(s, pay_ok) == TRUE

\* 'return success and paid'.
exec_value_paid(s, pay_ok) == s /\ pay_ok

\* The value of 'return success'; pay_ok is what go_to_payment returned.
exec_value(s, pay_ok) == s

\* An except clause that lets a failure of the screenshot escape.
except_value_reraise(shot_ok) == IF shot_ok THEN "False" ELSE "raised"

\* The value run() returns from its except clause; shot_ok tells whether
\* page.screenshot completed.
except_value(shot_ok) == "False"

\* Step 1: choose the date, once, or raise.
select_date ==
    /\ pc = "date"
    /\ \E outs \in BoolSeqs(date_selectors) :
          /\ wc' = Call("date", outs)
          /\ calls' = Count("date")
          /\ IF after_date(wc'.ret) = "raise"
             THEN /\ Raise("date")
                  /\ exec_end' = "date_error"
             ELSE /\ pc' = after_date(wc'.ret)
                  /\ UNCHANGED <<exc, exec_end>>
    /\ trace' = Append(trace, "search")
    /\ UNCHANGED <<is_ci, now, target, reading, screenshot, all_combinations,
                   idx, started, steps, verdicts, probe, submit_tried,
                   success, ret, result>>

\* Step 2: build the combinations and shuffle them.
shuffle_combinations ==
    /\ pc = "shuffle"
    /\ all_combinations' \in shuffle(product(courts, time_slots))
    /\ pc' = "loop"
    /\ UNCHANGED <<prep_vars, idx, started, steps, wc, verdicts, probe,
                   submit_tried, success, exc, exec_end, ret, result, calls>>

\* The head of the for loop: take the next combination, or leave the loop
\* and raise the final exception.
loop_next ==
    /\ pc = "loop"
    /\ IF idx < Len(all_combinations)
       THEN /\ idx' = idx + 1
            /\ started' = Append(started, all_combinations[idx + 1])
            /\ steps' = <<>>
            /\ pc' = "court"
            /\ UNCHANGED <<exc, exec_end>>
       ELSE /\ Raise("exhausted")
            /\ exec_end' = "exhausted"
            /\ UNCHANGED <<idx, started, steps>>
    /\ UNCHANGED <<prep_vars, all_combinations, wc, verdicts, probe,
                   submit_tried, success, ret, result, calls>>

\* Step a: click the tab of the court.
select_court ==
    /\ pc = "court"
    /\ \E outs \in BoolSeqs(court_selectors) :
          /\ wc' = Call("court", outs)
          /\ steps' = Append(steps, <<"court", wc'.ret>>)
          /\ pc' = next_step("court", wc'.ret)
    /\ UNCHANGED <<prep_vars, all_combinations, idx, started, verdicts,
                   probe, submit_tried, success, exc, exec_end, ret, result,
                   calls>>

\* A single page action of the loop body, which raises when it fails.
PageStep(step) ==
    /\ pc = step
    /\ \E ok \in BOOLEAN :
          /\ steps' = Append(steps, <<step, ok>>)
          /\ IF next_step(step, ok) = "raise"
             THEN /\ Raise(step)
                  /\ exec_end' = "step_error"
             ELSE /\ pc' = next_step(step, ok)
                  /\ UNCHANGED <<exc, exec_end>>
    /\ UNCHANGED <<prep_vars, all_combinations, idx, started, wc, verdicts,
                   probe, submit_tried, success, ret, result, calls>>

\* Step b: click the time slot.
click_slot ==
    /\ pc = "slot"
    /\ PageStep("slot")

\* Step c: click the confirm button.
click_confirm ==
    /\ pc = "confirm"
    /\ PageStep("confirm")

\* Step c: wait for the submit button to become visible.
wait_marker ==
    /\ pc = "marker"
    /\ PageStep("marker")

\* Step d: submit the order.
submit_order ==
    /\ pc = "submit"
    /\ \E outs \in BoolSeqs(submit_selectors) :
          /\ wc' = Call("submit", outs)
          /\ steps' = Append(steps, <<"submit", wc'.ret>>)
          /\ calls' = IF wc'.ret THEN Count("submit_ok") ELSE calls
          /\ submit_tried' = TRUE
          /\ pc' = next_step("submit", wc'.ret)
    /\ UNCHANGED <<prep_vars, all_combinations, idx, started, verdicts, probe,
                   success, exc, exec_end, ret, result>>

\* Step e: success = self.check_result(page).
classify ==
    /\ pc = "check"
    /\ \E sv, st, fv, ft \in BOOLEAN :
          LET r == check_result(sv, st, fv, ft)
          IN /\ Readable(sv, st)
             /\ Readable(fv, ft)
             /\ verdicts' = Append(verdicts, r.outcome)
             /\ probe' = [sv |-> sv, st |-> st, fv |-> fv, ft |-> ft,
                          probes |-> r.probes]
             /\ success' = r.ret
    /\ pc' = "checked"
    /\ steps' = Append(steps, <<"check", TRUE>>)
    /\ calls' = Count("classify")
    /\ UNCHANGED <<prep_vars, all_combinations, idx, started, wc,
                   submit_tried, exc, exec_end, ret, result>>

\* Step e: 'if success:' takes the search to go_to_payment or to the
\* return; what check_result saw of the page is gone.
branch_on_success ==
    /\ pc = "checked"
    /\ pc' = after_check(success)
    /\ probe' = NoProbe
    /\ UNCHANGED <<prep_vars, all_combinations, idx, started, steps, wc,
                   verdicts, submit_tried, success, exc, exec_end, ret,
                   result, calls>>

\* go_to_payment: its value is dropped by the caller.
go_to_payment ==
    /\ pc = "payment"
    /\ \E outs \in BoolSeqs(payment_selectors) :
          wc' = Call("payment", outs)
    /\ steps' = Append(steps, <<"payment", wc'.ret>>)
    /\ calls' = Count("payment")
    /\ pc' = "return"
    /\ UNCHANGED <<prep_vars, all_combinations, idx, started, verdicts,
                   probe, submit_tried, success, exc, exec_end, ret, result>>

\* 'return success' of _execute_booking and of run().
exec_return ==
    /\ pc = "return"
    /\ exec_end' = "returned"
    /\ ret' = IF exec_value(success, wc.site = "payment" /\ wc.ret)
              THEN "True" ELSE "False"
    /\ pc' = "finally"
    /\ UNCHANGED <<prep_vars, all_combinations, idx, started, steps, wc,
                   verdicts, probe, submit_tried, success, exc, result,
                   calls>>

(* ------------------- run(): except and finally ------------------------- *)

\* A finally clause that never waits for the Enter key.
needs_prompt_never(ci) == FALSE

\* 'if not self.is_ci:' of the finally clause.
needs_prompt(ci) == ~ci

\* The except clause of run(): a screenshot, whose failure is swallowed.
run_except ==
    /\ pc = "except"
    /\ \E shot_ok \in BOOLEAN :
          /\ screenshot' = IF shot_ok THEN "saved" ELSE "failed"
          /\ ret' = except_value(shot_ok)
    /\ calls' = Count("screenshot")
    /\ pc' = "finally"
    /\ UNCHANGED <<is_ci, now, target, reading, trace, search_vars, wc, exc,
                   result>>

\* The finally clause outside CI: wait for the Enter key.
finally_prompt ==
    /\ pc = "finally"
    /\ needs_prompt(is_ci)
    /\ calls' = Count("prompt")
    /\ pc' = "close"
    /\ UNCHANGED <<prep_vars, search_vars, wc, exc, ret, result>>

\* browser.close(), after which run() gives its caller the result.
browser_close ==
    /\ \/ pc = "close"
       \/ pc = "finally" /\ ~needs_prompt(is_ci)
    /\ calls' = Count("close")
    /\ result' = ret
    /\ pc' = "done"
    /\ UNCHANGED <<prep_vars, search_vars, wc, exc, ret>>

(* ------------------- wait_until_target_time alone --------------------- *)

\* run() at its call of wait_until_target_time: the preparation is done,
\* its last click having succeeded.
InitWait ==
    /\ pc = "wait"
    /\ is_ci \in BOOLEAN
    /\ now = -1
    /\ target = -1
    /\ reading = -1
    /\ trace = <<"prepared">>
    /\ all_combinations = <<>>
    /\ idx = 0
    /\ started = <<>>
    /\ steps = <<>>
    /\ \E outs \in BoolSeqs(booking_selectors) :
          /\ wait_and_click(outs).ret
          /\ wc = Call("booking_btn", outs)
    /\ verdicts = <<>>
    /\ probe = NoProbe
    /\ submit_tried = FALSE
    /\ success = FALSE
    /\ exc = "none"
    /\ screenshot = "none"
    /\ exec_end = "none"
    /\ ret = "none"
    /\ result = "none"
    /\ calls = [n \in CallNames |-> 0]

NextWait ==
    \/ wait_enter
    \/ wait_spin
    \/ wait_return

\* The call runs on while it can, and every pass of its loop finds the
\* clock further on or ends the loop.
WaitSpec ==
    /\ InitWait
    /\ [][NextWait]_vars
    /\ WF_vars(wait_spin)
    /\ WF_vars(wait_return)

Next ==
    \/ launch
    \/ goto
    \/ login_click
    \/ login_fill
    \/ login_submit
    \/ login_idle
    \/ select_venue
    \/ click_booking
    \/ wait_enter
    \/ wait_spin
    \/ wait_return
    \/ select_date
    \/ shuffle_combinations
    \/ loop_next
    \/ select_court
    \/ click_slot
    \/ click_confirm
    \/ wait_marker
    \/ submit_order
    \/ classify
    \/ branch_on_success
    \/ go_to_payment
    \/ exec_return
    \/ run_except
    \/ finally_prompt
    \/ browser_close

Spec == Init /\ [][Next]_vars

(* ----------------------------- properties ------------------------------ *)

Range(q) == {q[k] : k \in 1..Len(q)}

\* The current combination's log holds a failure of the step.
StepFailed(step) == \E k \in DOMAIN steps : steps[k] = <<step, FALSE>>

\* The current combination's log holds the step, whatever its outcome.
StepDone(step) == \E k \in DOMAIN steps : steps[k][1] = step

\* run() is past its try block.
Leaving == pc \in {"finally", "close", "done"}

AllTried == Len(started) = Len(courts) * Len(time_slots)

\* Some check_result call of the run reported Success.
HasSuccess == \E k \in DOMAIN verdicts : verdicts[k] = "Success"

\* C1: once check_result has reported Success for a combination, the
\* search only pays and returns true: no later combination of the shuffled
\* order is started and no further step is performed.
C1_StopsAtFirstSuccess ==
    HasSuccess =>
        /\ pc \in {"checked", "payment", "return", "finally", "close", "done"}
        /\ verdicts[Len(verdicts)] = "Success"
        /\ started = SubSeq(all_combinations, 1, idx)
        /\ steps[Len(steps)][1] \in {"check", "payment"}
        /\ calls["classify"] = Len(verdicts)
        /\ exec_end \in {"none", "returned"}
        /\ exec_end = "returned" => ret = "True"
        /\ pc = "done" => result = "True"

\* C1 witness: the second combination tried succeeded, later ones remain,
\* and run() has returned true.
C1_Witness ==
    /\ pc = "done"
    /\ result = "True"
    /\ verdicts = <<"Success">>
    /\ idx = 2
    /\ idx < Len(all_combinations)

\* C2: a Failure or Unknown classification does not end the search: when
\* _execute_booking has ended and its last classification was not a
\* Success, every combination has been started.
C2_ContinuesAfterNonSuccess ==
    (/\ exec_end # "none"
     /\ verdicts # <<>>
     /\ verdicts[Len(verdicts)] \in {"Failure", "Unknown"})
        => AllTried

\* C3: when every combination tried was classified and every
\* classification was Unknown, _execute_booking ends with the exhaustion
\* error, never with a return value.
C3_AllUnknownExhausts ==
    (/\ exec_end # "none"
     /\ verdicts # <<>>
     /\ Len(verdicts) = Len(started)
     /\ \A k \in 1..Len(verdicts) : verdicts[k] = "Unknown")
        => /\ exec_end = "exhausted"
           /\ exc = "exhausted"
           /\ AllTried

\* C4: no (court, slot) pair is started twice within one call, and every
\* pair started is one of the cartesian product.
C4_EachPairAtMostOnce ==
    /\ \A i, j \in 1..Len(started) : started[i] = started[j] => i = j
    /\ \A k \in DOMAIN started :
          \E c \in DOMAIN courts, s \in DOMAIN time_slots :
             started[k] = <<courts[c], time_slots[s]>>

\* C4 witness: every pair was started, with attempts that failed at
\* different steps, and the loop has run out.
C4_Witness ==
    /\ exec_end = "exhausted"
    /\ AllTried
    /\ submit_tried
    /\ StepFailed("slot")

\* The first selector of the latest wait_and_click call whose wait and
\* click complete (0 if none does).
FirstHit ==
    LET hits == {i \in 1..Len(wc.outs) : wc.outs[i]}
    IN IF hits = {} THEN 0 ELSE CHOOSE i \in hits : \A j \in hits : i <= j

\* C5: a wait_and_click call on a non-empty list with a selector that
\* succeeds returns True, has clicked the first such selector and has
\* tried exactly the selectors up to it, in list order.
C5_FirstSuccessWins ==
    (wc.site # "none" /\ Len(wc.outs) > 0 /\ FirstHit > 0) =>
        /\ wc.ret
        /\ wc.clicked = FirstHit
        /\ wc.tried = [k \in 1..FirstHit |-> k]

\* C5 witness: a three-selector call whose first selector fails and whose
\* second and third would succeed.
C5_Witness ==
    /\ wc.site = "booking_btn"
    /\ wc.outs = <<FALSE, TRUE, TRUE>>
    /\ pc = "wait"

\* C6: a wait_and_click call all of whose selectors fail returns False to
\* its caller after trying every selector once, in list order; inside the
\* loop of the search no exception comes of it.
C6_AllFailReturnsFalse ==
    (wc.site # "none" /\ FirstHit = 0) =>
        /\ ~wc.ret
        /\ wc.clicked = 0
        /\ wc.tried = [k \in 1..Len(wc.outs) |-> k]
        /\ wc.site \in {"court", "submit", "payment"}
              => exc \in {"none", "exhausted"}

\* C6 witness: the two court selectors both failed and the loop goes on.
C6_Witness ==
    /\ wc.site = "court"
    /\ wc.outs = <<FALSE, FALSE>>
    /\ pc = "loop"

PreSteps == {"court", "slot", "confirm", "marker"}

\* C7: a combination whose court, slot, confirm or marker step failed is
\* neither submitted nor classified, and the search moves on; a search in
\* which no combination got as far as the submit ends with the exhaustion
\* error after all combinations.
C7_NoSubmitAfterFailedStep ==
    /\ \A step \in PreSteps :
          StepFailed(step) =>
             /\ ~StepDone("submit")
             /\ ~StepDone("check")
             /\ ~StepDone("payment")
             /\ steps[Len(steps)] = <<step, FALSE>>
             /\ pc = "loop" \/ (Leaving \/ pc = "except")
             /\ pc # "loop" => exec_end = "exhausted"
    /\ (exec_end \notin {"none", "date_error"} /\ ~submit_tried) =>
          /\ exec_end = "exhausted"
          /\ exc = "exhausted"
          /\ AllTried
          /\ calls["classify"] = 0

\* C7 witness: the search ran out without any submit, the last
\* combination having failed at the marker.
C7_Witness ==
    /\ exec_end = "exhausted"
    /\ ~submit_tried
    /\ StepFailed("marker")
    /\ pc = "done"

\* C8: go_to_payment is invoked exactly once in a run with a Success
\* classification and the result is true whatever go_to_payment returned;
\* without a Success it is never invoked.
C8_PaymentOnceOnSuccess ==
    /\ ~HasSuccess => calls["payment"] = 0
    /\ calls["payment"] <= 1
    /\ (HasSuccess /\ exec_end # "none") =>
          /\ calls["payment"] = 1
          /\ wc.site = "payment"
          /\ ret = "True"
          /\ pc = "done" => result = "True"

\* C8 witness: a Success whose payment click failed, and run() returned
\* true.
C8_Witness ==
    /\ pc = "done"
    /\ result = "True"
    /\ wc.site = "payment"
    /\ ~wc.ret
    /\ calls["payment"] = 1

\* C9: the date is selected once, before the list is built and before any
\* combination is started; when the selection fails an error is raised, no
\* combination is started and run() returns false.
C9_DateOnceAndFatal ==
    /\ calls["date"] <= 1
    /\ (all_combinations # <<>> \/ started # <<>> \/ exec_end # "none")
          => calls["date"] = 1
    /\ (wc.site = "date" /\ ~wc.ret) =>
          /\ exec_end = "date_error"
          /\ exc = "date"
          /\ pc = "except" \/ Leaving
    /\ exec_end = "date_error" =>
          /\ all_combinations = <<>>
          /\ started = <<>>
          /\ idx = 0
          /\ Leaving => ret = "False"
          /\ pc = "done" => result = "False"

\* C9 witness: the three date selectors failed and run() returned false.
C9_Witness ==
    /\ pc = "done"
    /\ exec_end = "date_error"
    /\ wc.site = "date"
    /\ wc.outs = <<FALSE, FALSE, FALSE>>
    /\ result = "False"

\* C10: an exception that reaches run() from the preparation or from the
\* search is not propagated: one screenshot is requested, its failure is
\* swallowed, and run() returns false.
C10_ExceptionGivesFalse ==
    exc # "none" =>
        /\ pc = "except" \/ Leaving
        /\ pc = "except" => calls["screenshot"] = 0 /\ screenshot = "none"
        /\ Leaving => /\ calls["screenshot"] = 1
                      /\ screenshot \in {"saved", "failed"}
                      /\ ret = "False"
        /\ result \in {"none", "False"}
        /\ pc = "done" => result = "False"

\* C10 witness: the search raised its final error, the screenshot failed
\* too, and run() returned false.
C10_Witness ==
    /\ pc = "done"
    /\ exc = "exhausted"
    /\ screenshot = "failed"
    /\ result = "False"

TimeOfDay(t) == t % DayLen

DayStart(t) == t - TimeOfDay(t)

Waiting == pc \in {"spin", "wait_done"}

\* C11: outside CI, a wait entered before the target time of day ends only
\* on a clock reading at or after that time of the same day; entered after
\* it, the target is that time of the next day; and with a clock that keeps
\* advancing the wait ends.
C11_WaitsUntilTarget ==
    /\ [](Waiting =>
            /\ ~is_ci
            /\ TimeOfDay(now) < target_time
                  => target = DayStart(now) + target_time
            /\ TimeOfDay(now) > target_time
                  => target = DayStart(now) + DayLen + target_time
            /\ reading >= now
            /\ pc = "spin" /\ reading # now => reading < target
            /\ pc = "wait_done" => reading >= target)
    /\ [][(~is_ci /\ pc # "date" /\ pc' = "date") => pc = "wait_done"]_vars
    /\ (pc = "spin") ~> (pc = "date")

\* C11 witness: entered after the target time of day, the wait has ended
\* on a reading of the next day.
C11_Witness ==
    /\ pc = "wait_done"
    /\ TimeOfDay(now) > target_time
    /\ target = now - TimeOfDay(now) + DayLen + target_time
    /\ reading >= target

\* The outcome of the latest check_result call.
LastVerdict == verdicts[Len(verdicts)]

\* C12: a search without a Success ends by raising the exhaustion error,
\* after at most one attempt per combination and without a second pass,
\* and run() reports false.
C12_NoSuccessRaisesExhaustion ==
    (exec_end \notin {"none", "date_error"} /\ ~HasSuccess) =>
        /\ exec_end = "exhausted"
        /\ exc = "exhausted"
        /\ Len(started) <= Len(courts) * Len(time_slots)
        /\ calls["date"] = 1
        /\ pc = "done" => result = "False"

\* C13 as claimed: check_result tells Success (success pattern visible),
\* Failure (only the failure pattern visible) and Unknown (neither) apart
\* in what it gives its caller, and probes for the failure pattern only
\* after the success probe failed.
C13_ThreeOutcomesToldApart ==
    pc = "checked" =>
        /\ probe.sv => LastVerdict = "Success"
        /\ ~probe.sv /\ probe.fv => LastVerdict = "Failure"
        /\ ~probe.sv /\ ~probe.fv => LastVerdict = "Unknown"
        /\ LastVerdict = "Unknown"
              => success # check_result(FALSE, FALSE, TRUE, TRUE).ret
        /\ LastVerdict = "Failure"
              => success # check_result(FALSE, FALSE, FALSE, FALSE).ret
        /\ probe.probes = IF LastVerdict = "Success" THEN <<"success">>
                          ELSE <<"success", "failure">>

\* C13: check_result returns True exactly when the success pattern became
\* visible and its text was read, whatever the failure pattern does, and
\* False otherwise; of the False cases, Failure is the one where the
\* failure pattern became visible and its text was read, Unknown the
\* other; the failure probe runs only after the success probe failed.
C13_BooleanOutcome ==
    pc = "checked" =>
        /\ LastVerdict = "Success" <=> (probe.sv /\ probe.st)
        /\ LastVerdict = "Failure"
              <=> (~(probe.sv /\ probe.st) /\ probe.fv /\ probe.ft)
        /\ LastVerdict = "Unknown"
              <=> (~(probe.sv /\ probe.st) /\ ~(probe.fv /\ probe.ft))
        /\ success <=> LastVerdict = "Success"
        /\ probe.probes = IF LastVerdict = "Success" THEN <<"success">>
                          ELSE <<"success", "failure">>

\* C13 witness: both patterns were on the page and check_result returned
\* True after the success probe alone.
C13_Witness ==
    /\ pc = "checked"
    /\ probe.sv /\ probe.st /\ probe.fv /\ probe.ft
    /\ success
    /\ probe.probes = <<"success">>

\* C14: nothing but the date-selection error and the exhaustion error
\* leaves _execute_booking; a step of the loop body that fails takes the
\* search to the next combination.
C14_LoopErrorsStayInside ==
    /\ exec_end \in {"none", "returned", "date_error", "exhausted"}
    /\ exec_end = "date_error" <=> exc = "date"
    /\ exec_end = "exhausted" <=> exc = "exhausted"
    /\ exc \notin {"court", "slot", "confirm", "marker", "submit", "check",
                  "payment"}
    /\ \A step \in {"court", "slot", "confirm", "marker", "submit"} :
          StepFailed(step) => pc = "loop" \/ exec_end = "exhausted"

\* C14 witness: the confirm click of the first combination raised and the
\* for loop is about to take the second.
C14_Witness ==
    /\ pc = "loop"
    /\ StepFailed("confirm")
    /\ idx = 1
    /\ exc = "none"

Phases == <<"prepared", "wait", "waited", "search">>

PrepErrors == {"goto", "login", "fill", "load_state", "venue", "booking_btn"}

\* C15: the phases of run() begin in the order preparation, wait, search:
\* the wait starts only after the preparation completed, the search only
\* after the wait returned, and a failed preparation is followed by
\* neither.
C15_PhasesInOrder ==
    /\ Len(trace) <= Len(Phases)
    /\ \A k \in DOMAIN trace : trace[k] = Phases[k]
    /\ pc \in {"wait", "spin", "wait_done"} =>
          /\ exc = "none"
          /\ wc.site = "booking_btn"
          /\ wc.ret
    /\ exc \in PrepErrors =>
          /\ trace = <<>>
          /\ calls["date"] = 0
          /\ started = <<>>
          /\ exec_end = "none"
    /\ (calls["date"] > 0 \/ started # <<>> \/ exec_end # "none")
          => trace = Phases

\* C15 witness: outside CI, the search has started a combination after
\* the wait returned.
C15_Witness ==
    /\ ~is_ci
    /\ trace = Phases
    /\ started # <<>>
    /\ pc = "court"

\* C16: in CI wait_until_target_time returns at once: it reads no clock,
\* computes no target, never enters its loop, and the date selection of
\* the search is next.
C16_BypassReturnsAtOnce ==
    is_ci =>
        /\ pc \notin {"spin", "wait_done"}
        /\ now = -1
        /\ target = -1
        /\ reading = -1
        /\ Len(trace) >= 2 => Len(trace) >= 3 /\ trace[3] = "waited"
        /\ Len(trace) = 3 => pc = "date"

\* C16 witness: in CI the wait has returned and the search is about to
\* select the date.
C16_Witness ==
    /\ is_ci
    /\ pc = "date"
    /\ trace = <<"prepared", "wait", "waited">>

\* C17: run() returns true only after a run in which the preparation and
\* the date selection succeeded and the current combination had its court,
\* slot, confirm, marker and submit steps succeed and was then classified
\* Success.
C17_TrueOnlyAfterSuccess ==
    (ret = "True" \/ result = "True") =>
        /\ exc = "none"
        /\ trace = Phases
        /\ calls["date"] = 1
        /\ exec_end = "returned"
        /\ Len(steps) >= 6
        /\ SubSeq(steps, 1, 6) =
              <<<<"court", TRUE>>, <<"slot", TRUE>>, <<"confirm", TRUE>>,
                <<"marker", TRUE>>, <<"submit", TRUE>>, <<"check", TRUE>>>>
        /\ started[Len(started)] = all_combinations[idx]
        /\ verdicts # <<>> /\ LastVerdict = "Success"
        /\ success

\* C17 witness: run() returned true on the last combination of the list.
C17_Witness ==
    /\ pc = "done"
    /\ result = "True"
    /\ idx = Len(all_combinations)
    /\ idx > 1

C19_CloseOnceAfterResult ==
    /\ calls["close"] <= 1
    /\ calls["prompt"] <= 1
    /\ is_ci => calls["prompt"] = 0
    /\ calls["close"] = 1 =>
          /\ pc = "done"
          /\ ret \in {"True", "False"}
          /\ ~is_ci => calls["prompt"] = 1
    /\ pc = "done" =>
          IF result = "raised"
          THEN trace = <<>> /\ exc = "none" /\ calls["close"] = 0
          ELSE calls["close"] = 1 /\ result = ret

\* C19 witness: outside CI a run that caught an exception has prompted and
\* closed the browser.
C19_Witness ==
    /\ pc = "done"
    /\ ~is_ci
    /\ exc # "none"
    /\ calls["prompt"] = 1
    /\ calls["close"] = 1
    /\ result = "False"

\* C20: outside CI the target is later than the now it was computed from,
\* by at most a day, and a now at the target time of day gives the target
\* of the next day.
C20_TargetWithinADay ==
    Waiting =>
        /\ 0 < target - now
        /\ target - now <= DayLen
        /\ TimeOfDay(target) = target_time
        /\ TimeOfDay(now) = target_time => target = now + DayLen

\* C20 witness: the wait was entered at the target time of day.
C20_Witness ==
    /\ pc = "spin"
    /\ TimeOfDay(now) = target_time
    /\ target = now + DayLen

=============================================================================
